---- MODULE Spec2Model ----
(***************************************************************************)
(* Lazy-loading GitHub entities (Issue, Label) of                          *)
(* andrewvaughan/template-sandbox, .github/workflows/src/GitHub.           *)
(*                                                                         *)
(* The repository holds three generations of the entity code; the model    *)
(* keeps all three and runs one entity of one generation per behaviour:    *)
(*   "Rest"   src/unnamed/part_002: Issue backed by the REST API, its data *)
(*            cached whole in `_issue`, with addLabels / removeLabels;     *)
(*   "Lists"  GraphQLAbstract.js:19-263 with Issue.js:21-281 and           *)
(*            Label.js:21-170: `_primitiveFields`, `_manyToOneFields`,     *)
(*            `_manyToManyFields`, `_loadPrimitives`, `generateSet`;       *)
(*   "Fields" GraphQLAbstract.js:285-628 with src/unnamed/part_003 (Issue) *)
(*            and Label.js:192-403: the `_fields` registry, `create`,      *)
(*            `_getGraphQLQuery` and the `get` / `has` / `set` traps.      *)
(*                                                                         *)
(* A call to the GitHub API is asynchronous: the operation that issues it  *)
(* appends a request to `inflight`, and a later step (Settle) delivers the *)
(* response and runs the `.then` handler the code attached.                *)
(***************************************************************************)
EXTENDS Integers, Sequences, FiniteSets, TLC

VARIABLES
  variant,      \* which generation of the code the entity is an instance of
  cls,          \* the entity's class: "Issue" or "Label"
  props,        \* the instance's own data properties (number/name, repository, owner, ...)
  _cache,       \* GraphQLAbstract#_cache: field name -> cached value
  _issue,       \* part_002 Issue#_issue: << >> when unset, <<data>> when loaded
  _PAGE_SIZE,   \* the static _PAGE_SIZE of each class, as the class declares it
  inflight,     \* API requests issued and not yet answered
  all,          \* part_002 removeLabels: state of its Promise.all(...).finally(...)
  nCalls,       \* number of API calls issued so far
  last,         \* what the most recent step did and what the caller observes
  env,          \* process.env: the three debugging variables, undefined when absent
  _debugLevel,  \* Logger#_debugLevel: undefined until debugLevel is first read
  _groupLevel,  \* Logger#_groupLevel: the logging groups currently open
  console,      \* console.log: how many lines of each kind the Logger has written
  handler       \* OnIssues.handleUserAssigned: its position, locals and promise

\* The entity and the API.
entity == <<variant, cls, props, _cache, _issue, _PAGE_SIZE, inflight, all, nCalls>>

\* The workflow around it: the environment, a Logger, the console and the handler.
workflow == <<env, _debugLevel, _groupLevel, console, handler>>

vars == <<entity, last, workflow>>

(***************************************************************************)
(* Bounds of the model.                                                    *)
(***************************************************************************)
MaxInFlight == 2
MaxCalls == 3
MaxGroups == 3
MaxLines == 1

(***************************************************************************)
(* JavaScript values: <<type, string payload, number payload>>.            *)
(***************************************************************************)
Undefined == <<"undefined", "", 0>>
Null == <<"null", "", 0>>
NaN == <<"NaN", "", 0>>
Str(s) == <<"string", s, 0>>
Num(n) == <<"number", "", n>>
Bool(b) == <<"boolean", IF b THEN "true" ELSE "false", 0>>
\* An array of n built entities of class c (a collection relation's value).
List(c, n) == <<"list", c, n>>

\* ToBoolean: what `if (v)` and `v ? a : b` test.
Truthy(v) ==
  CASE v[1] = "string" -> v[2] # ""
    [] v[1] = "number" -> v[3] # 0
    [] v[1] = "boolean" -> v[2] = "true"
    [] v[1] = "list" -> TRUE
    [] OTHER -> FALSE

\* The coercion functions the `_fields` registries name.
String(v) ==
  CASE v[1] = "string" -> v
    [] v[1] = "number" -> Str(CASE v[3] = 0 -> "0" [] v[3] = 1 -> "1" [] v[3] = 2 -> "2" [] OTHER -> "7")
    [] v[1] = "boolean" -> Str(v[2])
    [] v[1] = "null" -> Str("null")
    [] v[1] = "NaN" -> Str("NaN")
    [] OTHER -> Str("undefined")

Number(v) ==
  CASE v[1] = "number" -> v
    [] v[1] = "string" ->
         (CASE v[2] = "" -> Num(0) [] v[2] = "0" -> Num(0) [] v[2] = "1" -> Num(1)
            [] v[2] = "2" -> Num(2) [] v[2] = "7" -> Num(7) [] OTHER -> NaN)
    [] v[1] = "boolean" -> Num(IF v[2] = "true" THEN 1 ELSE 0)
    [] v[1] = "null" -> Num(0)
    [] OTHER -> NaN

Boolean(v) == Bool(Truthy(v))

\* Applies the registry's resolver `func` to a raw API value.
Apply(func, v) ==
  CASE func = "String" -> String(v)
    [] func = "Number" -> Number(v)
    [] func = "Boolean" -> Boolean(v)
    [] OTHER -> v

(***************************************************************************)
(* The classes and their static declarations.  The registries keep one     *)
(* field of each resolver kind the source declares per class.              *)
(***************************************************************************)
Variants == {"Rest", "Lists", "Fields"}
Entities == {<<"Rest", "Issue">>, <<"Lists", "Issue">>, <<"Lists", "Label">>,
             <<"Fields", "Issue">>, <<"Fields", "Label">>}

\* Classes that extend GraphQLAbstract (`func.prototype instanceof GraphQLAbstract`).
GraphQLAbstractClasses == {"Issue", "Label", "ProjectV2Item", "ProjectV2ItemFieldValue"}

\* static _fields of the "Fields" generation.
_fields(c) ==
  CASE c = "Issue" ->
         [title |-> "String", number |-> "Number", labels |-> "Label", trackedIssues |-> "Issue"]
    [] c = "Label" -> [color |-> "String", name |-> "String"]
    [] OTHER -> [id |-> "String", fieldValues |-> "ProjectV2ItemFieldValue"]

\* static _primitiveFields / _manyToOneFields / _manyToManyFields of "Lists".
_primitiveFields(c) == IF c = "Issue" THEN {"title", "number"} ELSE {"color", "name"}

_manyToOneFields(c) == IF c = "Issue" THEN [author |-> "'Actor'"] ELSE << >>

\* Issue.js maps its relations to strings ("Label"), Label.js to the class Issue.
_manyToManyFields(c) == IF c = "Issue" THEN [labels |-> "'Label'"] ELSE [issues |-> "Issue"]

\* The identity properties the constructors assign on the instance.
IdentityFields(c) == IF c = "Issue" THEN {"number", "repository", "owner"}
                     ELSE {"name", "repository", "owner"}

KeyField(c) == IF c = "Issue" THEN "number" ELSE "name"

\* static _PAGE_SIZE = 20 of GraphQLAbstract (_PAGINATION_COUNT in "Lists").
GraphQLAbstract_PAGE_SIZE == 20

\* static _PAGE_SIZE = 2, the one override the source holds (ProjectV2Item).
ProjectV2Item_PAGE_SIZE == 2

(***************************************************************************)
(* Helpers over the state.                                                 *)
(***************************************************************************)
\* A merge in which a key already present keeps its value.
Merge_keepingFirst(f, g) ==
  [x \in (DOMAIN f) \cup (DOMAIN g) |-> IF x \in DOMAIN f THEN f[x] ELSE g[x]]

Merge(f, g) == [x \in (DOMAIN f) \cup (DOMAIN g) |-> IF x \in DOMAIN g THEN g[x] ELSE f[x]]

\* A lookup that answers null for a property the instance does not have.
Direct_nullWhenAbsent(prop) == IF prop \in DOMAIN props THEN props[prop] ELSE Null

\* Reflect.get(target, prop): the instance's own data property, else undefined.
Direct(prop) == IF prop \in DOMAIN props THEN props[prop] ELSE Undefined

\* Reflect.has(target, prop) on the bare instance.
ReflectHas(prop) == prop \in DOMAIN props

NoMap == [owner |-> Undefined, repository |-> Undefined, key |-> Undefined, pageSize |-> 0]

\* Variable bindings that keep the key the entity was first given.
IdentityMap_asConstructed(pageSize) ==
  [owner |-> Direct("owner"), repository |-> Direct("repository"),
   key |-> IF cls = "Issue" THEN Num(1) ELSE Str("bug"), pageSize |-> pageSize]

\* The variable bindings built from the instance as it is now.
IdentityMap(pageSize) ==
  [owner |-> Direct("owner"), repository |-> Direct("repository"),
   key |-> Direct(KeyField(cls)), pageSize |-> pageSize]

NoRequest == [api |-> "none", prop |-> "", query |-> {}, map |-> NoMap]

\* What stays of a request while its answer is awaited: the API called, the
\* field it was read for, the fields queried and the page size asked for.
Awaiting(req) == [req EXCEPT !.map = [NoMap EXCEPT !.pageSize = req.map.pageSize]]

\* What a settling request leaves in `last`: the API it called and the page
\* size it asked for.
Of(req) == [api |-> req.api, prop |-> req.prop, query |-> {}, map |-> req.map]

\* What a response leaves in `last`: the data object and the totalCount it carried.
\* `answer` tells a rejected call ("rejected") from a response that lacks a
\* key of the path to the entity or has an error status ("incomplete") and
\* from a complete one ("ok").
NoResponse == [answer |-> "none", data |-> << >>, total |-> 0]
Answer(ok, complete) == IF ~ok THEN "rejected" ELSE IF complete THEN "ok" ELSE "incomplete"
Carrying(answer, data) == [answer |-> answer, data |-> data, total |-> 0]
Counting(answer, total) == [answer |-> answer, data |-> << >>, total |-> total]

\* Whether the entity holds cached data (`_cache` has a key, `_issue` is set).
Cached == IF variant = "Rest" THEN _issue # << >> ELSE DOMAIN _cache # {}

\* The record of a step: the operation, what it issued (`issued` calls, the
\* last of them `req`), what the caller observes (`outcome`, `value`), the
\* response it handled and whether data was cached before it.
Step(op, prop, issued, outcome, value, req, resp) ==
  [op |-> op, prop |-> prop, issued |-> issued, outcome |-> outcome, value |-> value,
   api |-> req.api, query |-> req.query, map |-> req.map,
   answer |-> resp.answer, data |-> resp.data, total |-> resp.total, held |-> Cached]

\* The step returned `value` synchronously and issued nothing.
Returned(op, prop, value) == Step(op, prop, 0, "returned", value, NoRequest, NoResponse)

\* The step returned a promise that settled without any API call.
Settled(op, prop, outcome, value) == Step(op, prop, 0, outcome, value, NoRequest, NoResponse)

CanIssue(n) == Len(inflight) + n <= MaxInFlight /\ nCalls + n <= MaxCalls

\* Issues one API call; the step's result is a pending promise.
IssueCall(op, prop, req) ==
  /\ CanIssue(1)
  /\ inflight' = Append(inflight, Awaiting(req))
  /\ nCalls' = nCalls + 1
  /\ last' = Step(op, prop, 1, "pending", Undefined, req, NoResponse)

RemoveAt(s, i) == [j \in 1..(Len(s) - 1) |-> IF j < i THEN s[j] ELSE s[j + 1]]

(***************************************************************************)
(* Values the environment supplies.                                        *)
(***************************************************************************)
\* What the caller passes to the constructor for the key identity field
\* (an Issue number, a Label name), a falsy one included.
ConstructorKeys(c) == IF c = "Issue" THEN {Num(1), Num(0)} ELSE {Str("bug"), Str("")}

\* What the caller assigns to the key identity field later.
AssignedKeys(c) == IF c = "Issue" THEN {Num(2), Undefined} ELSE {Str("docs"), Undefined}

\* A raw JSON value the API may send for a primitive field.
RawValues(f) ==
  CASE f = "title" -> {Str("bug")}
    [] f = "number" -> {Num(7)}
    [] f = "color" -> {Str("red"), Null}
    [] f = "name" -> {Str("docs")}
    [] OTHER -> {Null}

AllRawValues == UNION {RawValues(f) : f \in {"title", "number", "color", "name"}}

\* The data objects a response may carry for a query of `fields`: any subset
\* of the queried fields (a response may omit a field), each with a raw value.
DataObjects(fields) ==
  {d \in UNION {[D -> AllRawValues] : D \in SUBSET fields} :
     \A f \in DOMAIN d : d[f] \in RawValues(f)}

(***************************************************************************)
(* "Fields" generation: the query builder.                                 *)
(***************************************************************************)
\* A get trap that never finds the property in the cache.
CacheHit_never(prop) == FALSE

\* `sProp in target._cache` (GraphQLAbstract.js:471, 201).
CacheHit(prop) == prop \in DOMAIN _cache

\* GraphQLAbstract._getPrimitiveFields: the registry's fields whose resolver
\* is no GraphQLAbstract class.
_getPrimitiveFields(c) == {f \in DOMAIN _fields(c) : _fields(c)[f] \notin GraphQLAbstractClasses}

\* Issue#_getGraphQLQuery / Label#_getGraphQLQuery: [query, map, container].
_getGraphQLQuery ==
  [query |-> _getPrimitiveFields(cls),
   map |-> IdentityMap(0),
   container |-> IF cls = "Issue" THEN <<"repository", "issue">> ELSE <<"repository", "label">>]

\* A create that asks for two pages' worth in one call.
create_pageSize_twoPages(related) == 2 * _PAGE_SIZE["GraphQLAbstract"]

\* The default of create's `pageSize` parameter: Label.create and the base
\* name GraphQLAbstract._PAGE_SIZE, ProjectV2Item.create its own constant.
create_pageSize(related) ==
  IF related = "ProjectV2Item" THEN _PAGE_SIZE["ProjectV2Item"] ELSE _PAGE_SIZE["GraphQLAbstract"]

\* Whether `related`.create has a case for the calling class.
create_supports(related, caller) == related \in {"Label", "ProjectV2Item"} /\ caller = "Issue"

\* The GraphQL call of `related`.create(caller) for the calling entity
\* (Label.js:278-298, Issue.js:758-778); `prop` is the field it is read for.
create_request(related, prop) ==
  [api |-> IF related = "Label" THEN "Label.create" ELSE "ProjectV2Item.create",
   prop |-> prop, query |-> _getPrimitiveFields(related),
   map |-> IdentityMap(create_pageSize(related))]

CreateApis == {"Label.create", "ProjectV2Item.create"}

(***************************************************************************)
(* "Fields" generation: the get trap (GraphQLAbstract.js:450-547).         *)
(***************************************************************************)
Fields_get(prop) ==
  /\ variant = "Fields"
  /\ LET direct == Direct(prop)
         fields == _fields(cls)
     IN  IF direct # Undefined
         THEN /\ last' = Returned("get", prop, direct)
              /\ UNCHANGED <<inflight, nCalls>>
         ELSE IF prop \notin DOMAIN fields
         THEN /\ last' = Returned("get", prop, direct)
              /\ UNCHANGED <<inflight, nCalls>>
         ELSE IF CacheHit(prop)
         THEN /\ last' = Returned("get", prop, _cache[prop])
              /\ UNCHANGED <<inflight, nCalls>>
         ELSE IF fields[prop] \in GraphQLAbstractClasses
         THEN IF create_supports(fields[prop], cls)
              THEN IssueCall("get", prop, create_request(fields[prop], prop))
              ELSE /\ last' = Settled("get", prop, "NotImplementedError", Undefined)
                   /\ UNCHANGED <<inflight, nCalls>>
         ELSE LET q == _getGraphQLQuery
              IN  IssueCall("get", prop,
                        [api |-> "graphql.primitives", prop |-> prop, query |-> q.query, map |-> q.map])
  /\ UNCHANGED <<workflow, variant, cls, props, _cache, _issue, _PAGE_SIZE, all>>

\* `related`.create(entity) called on the class itself (Issue.js:745-819,
\* Label.js:265-341, part_003:138-143), for an entity whose key is set on
\* the instance.
create(related) ==
  /\ variant = "Fields"
  /\ Direct(KeyField(cls)) # Undefined
  /\ IF create_supports(related, cls)
     THEN IssueCall("create", "", create_request(related, ""))
     ELSE /\ last' = Settled("create", "", "NotImplementedError", Undefined)
          /\ UNCHANGED <<inflight, nCalls>>
  /\ UNCHANGED <<workflow, variant, cls, props, _cache, _issue, _PAGE_SIZE, all>>

(***************************************************************************)
(* Responses of the API.                                                   *)
(***************************************************************************)
\* A primitive fetch: rejected, or a response that lacks container key number
\* `missing` (0: none lacking) and carries `data` for the entity.
PrimitiveResponses(query) ==
  {[ok |-> FALSE, missing |-> 0, data |-> << >>]}
    \cup {[ok |-> TRUE, missing |-> m, data |-> << >>] : m \in {1, 2}}
    \cup {[ok |-> TRUE, missing |-> 0, data |-> d] : d \in DataObjects(query)}

\* How many nodes a connection may list for a request of `pageSize`.
NodeCounts(pageSize) == {0, pageSize, pageSize + 1}

\* A collection fetch: rejected; `shape` "broken" (response.repository.issue
\* cannot be read), "null" (the connection is null) or "nodes" (n nodes listed,
\* totalCount `total`).
ConnectionResponses(pageSize) ==
  {[ok |-> FALSE, shape |-> "none", n |-> 0, total |-> 0]}
    \cup {[ok |-> TRUE, shape |-> sh, n |-> 0, total |-> 0] : sh \in {"broken", "null"}}
    \cup UNION {{[ok |-> TRUE, shape |-> "nodes", n |-> n, total |-> t] :
                    t \in {n} \cup (IF n = pageSize THEN {n + pageSize} ELSE {})} :
                  n \in NodeCounts(pageSize)}

(***************************************************************************)
(* "Fields" generation: the `.then` handlers.                              *)
(***************************************************************************)
\* A handler that caches the requested field only.
LoadPrimitiveFromGraphQL_requestedOnly(req, resp) ==
  IF ~resp.ok
  THEN [cache |-> _cache, outcome |-> "ApiError", value |-> Undefined]
  ELSE IF resp.missing > 0
  THEN [cache |-> _cache, outcome |-> "ReferenceError", value |-> Undefined]
  ELSE LET loaded == [k \in DOMAIN resp.data \cap {req.prop} |->
                        Apply(_fields(cls)[k], resp.data[k])]
           cache2 == Merge(_cache, loaded)
       IN  [cache |-> cache2, outcome |-> "fulfilled",
            value |-> IF req.prop \in DOMAIN cache2 THEN cache2[req.prop] ELSE Undefined]

\* LoadPrimitiveFromGraphQL's handler (GraphQLAbstract.js:510-544).
LoadPrimitiveFromGraphQL(req, resp) ==
  IF ~resp.ok
  THEN [cache |-> _cache, outcome |-> "ApiError", value |-> Undefined]
  ELSE IF resp.missing > 0
  THEN [cache |-> _cache, outcome |-> "ReferenceError", value |-> Undefined]
  ELSE LET loaded == [k \in DOMAIN resp.data |-> Apply(_fields(cls)[k], resp.data[k])]
           cache2 == Merge(_cache, loaded)
       IN  [cache |-> cache2, outcome |-> "fulfilled",
            value |-> IF req.prop \in DOMAIN cache2 THEN cache2[req.prop] ELSE Undefined]

\* The array Label.create / ProjectV2Item.create build from a response: one
\* entity per listed node (Label.js:305-335, Issue.js:787-813).
create_then(related, resp) ==
  IF resp.shape = "null" THEN List(related, 0) ELSE List(related, resp.n)

\* The promise of `related`.create as its caller sees it settle.
create_settled(related, resp) ==
  IF ~resp.ok THEN [outcome |-> "ApiError", value |-> Undefined]
  ELSE IF resp.shape = "broken" THEN [outcome |-> "TypeError", value |-> Undefined]
  ELSE [outcome |-> "fulfilled", value |-> create_then(related, resp)]

\* A handler that caches an empty collection when the call is rejected.
LoadFromSmartObject_cachingRejection(req, resp) ==
  [cache |-> Merge(_cache, [k \in {req.prop} |-> List(_fields(cls)[req.prop], 0)]),
   outcome |-> "fulfilled", value |-> List(_fields(cls)[req.prop], 0)]

\* LoadFromSmartObject's handler around create (GraphQLAbstract.js:482-492).
LoadFromSmartObject(req, resp) ==
  IF ~resp.ok
  THEN [cache |-> _cache, outcome |-> "ApiError", value |-> Undefined]
  ELSE IF resp.shape = "broken"
  THEN [cache |-> _cache, outcome |-> "TypeError", value |-> Undefined]
  ELSE LET created == create_then(_fields(cls)[req.prop], resp)
       IN  [cache |-> Merge(_cache, [k \in {req.prop} |-> created]),
            outcome |-> "fulfilled", value |-> created]

SettleFields(i) ==
  /\ variant = "Fields"
  /\ i \in DOMAIN inflight
  /\ LET req == inflight[i]
     IN  \/ /\ req.api = "graphql.primitives"
            /\ \E resp \in PrimitiveResponses(req.query) :
                 LET r == LoadPrimitiveFromGraphQL(req, resp)
                 IN  /\ _cache' = r.cache
                     /\ last' = Step("settle", req.prop, 0, r.outcome, r.value, Of(req),
                                      Carrying(Answer(resp.ok, resp.missing = 0), resp.data))
         \/ /\ req.api \in CreateApis
            /\ req.prop # ""
            /\ \E resp \in ConnectionResponses(req.map.pageSize) :
                 LET r == LoadFromSmartObject(req, resp)
                 IN  /\ _cache' = r.cache
                     /\ last' = Step("settle", req.prop, 0, r.outcome, r.value, Of(req),
                                      Counting(Answer(resp.ok, resp.shape # "broken"), resp.total))
         \/ /\ req.api \in CreateApis
            /\ req.prop = ""
            /\ \E resp \in ConnectionResponses(req.map.pageSize) :
                 LET r == create_settled(IF req.api = "Label.create" THEN "Label" ELSE "ProjectV2Item", resp)
                 IN  /\ _cache' = _cache
                     /\ last' = Step("settle", req.prop, 0, r.outcome, r.value, Of(req),
                                      Counting(Answer(resp.ok, resp.shape # "broken"), resp.total))
  /\ inflight' = RemoveAt(inflight, i)
  /\ UNCHANGED <<workflow, variant, cls, props, _issue, _PAGE_SIZE, all, nCalls>>

(***************************************************************************)
(* "Fields" generation: clearCache and the set trap.                       *)
(***************************************************************************)
\* A clearCache that leaves the cache as it is.
clearCache_keeping ==
  /\ variant \in {"Fields", "Lists"}
  /\ _cache' = _cache
  /\ last' = Returned("clearCache", "", Undefined)
  /\ UNCHANGED <<workflow, variant, cls, props, _issue, _PAGE_SIZE, inflight, all, nCalls>>

\* GraphQLAbstract#clearCache (GraphQLAbstract.js:414-418, 157-161).
clearCache ==
  /\ variant \in {"Fields", "Lists"}
  /\ _cache' = << >>
  /\ last' = Returned("clearCache", "", Undefined)
  /\ UNCHANGED <<workflow, variant, cls, props, _issue, _PAGE_SIZE, inflight, all, nCalls>>

\* A has trap that answers for the registry alone.
has_registryOnly(prop) == prop \in DOMAIN _fields(cls)

\* The has trap (GraphQLAbstract.js:559-572): it compares the property's value
\* with the string "undefined".
has(prop) ==
  IF Direct(prop) # Str("undefined") THEN TRUE
  ELSE prop \in DOMAIN _fields(cls)

\* `prop in entity` on a constructed entity.  The outer proxy's has trap is
\* the inner proxy's `has` with the inner proxy as target, so its
\* `Reflect.get(...arguments)` (GraphQLAbstract.js:561) runs the get trap:
\* a registered field that is neither set nor cached is fetched, and the
\* promise, like every value other than the string "undefined", answers true.
Fields_has(prop) ==
  /\ variant = "Fields"
  /\ LET direct == Direct(prop)
         fields == _fields(cls)
         answer == Bool(IF direct # Undefined THEN direct # Str("undefined") \/ prop \in DOMAIN fields
                        ELSE TRUE)
         fetched == /\ direct = Undefined
                    /\ prop \in DOMAIN fields \ DOMAIN _cache
                    /\ fields[prop] \in GraphQLAbstractClasses => create_supports(fields[prop], cls)
         req == IF fields[prop] \in GraphQLAbstractClasses
                THEN create_request(fields[prop], prop)
                ELSE [api |-> "graphql.primitives", prop |-> prop,
                      query |-> _getGraphQLQuery.query, map |-> _getGraphQLQuery.map]
     IN  IF fetched
         THEN /\ CanIssue(1)
              /\ inflight' = Append(inflight, Awaiting(req))
              /\ nCalls' = nCalls + 1
              /\ last' = Step("has", prop, 1, "returned", answer, req, NoResponse)
         ELSE /\ last' = Returned("has", prop, answer)
              /\ UNCHANGED <<inflight, nCalls>>
  /\ UNCHANGED <<workflow, variant, cls, props, _cache, _issue, _PAGE_SIZE, all>>

\* The set trap on the bare instance (GraphQLAbstract.js:592-627): the cache,
\* the properties and the outcome it leaves, from cache `c`.
set(c, prop, value) ==
  IF ReflectHas(prop)
  THEN [cache |-> << >>, props |-> [props EXCEPT ![prop] = value], outcome |-> "returned"]
  ELSE IF prop \in DOMAIN _fields(cls)
  THEN IF _fields(cls)[prop] \in GraphQLAbstractClasses
       THEN [cache |-> c, props |-> props, outcome |-> "NotImplementedError"]
       ELSE [cache |-> Merge(c, [k \in {prop} |-> Apply(_fields(cls)[prop], value)]),
             props |-> props, outcome |-> "TypeError"]
  ELSE [cache |-> c, props |-> props, outcome |-> "TypeError"]

\* `entity[prop] = value` on a constructed entity.  A child constructor wraps
\* the proxy its parent returned in a second proxy whose handler is the first
\* (Label.js:246-259, part_003:122-133), so the trap runs twice: the outer
\* run asks Reflect.has of the inner proxy, which is the has trap, clears the
\* cache when that answers true, and Reflect.set then runs the inner trap.
Fields_set(prop, value) ==
  /\ variant = "Fields"
  /\ LET r == IF has(prop) THEN set(<< >>, prop, value)
              ELSE [cache |-> _cache, props |-> props, outcome |-> "TypeError"]
     IN  /\ _cache' = r.cache
         /\ props' = r.props
         /\ last' = Step("set", prop, 0, r.outcome, value, NoRequest, NoResponse)
  /\ UNCHANGED <<workflow, variant, cls, _issue, _PAGE_SIZE, inflight, all, nCalls>>

(***************************************************************************)
(* "Lists" generation (GraphQLAbstract.js:19-263, Issue.js:21-281,         *)
(* Label.js:21-170).                                                       *)
(***************************************************************************)
\* The early return of _loadPrimitives(force = false): Label tests
\* this._cache["name"] (Label.js:108), Issue tests this._issue (Issue.js:211),
\* which nothing in this generation assigns.
_loadPrimitives_hit ==
  cls = "Label" /\ "name" \in DOMAIN _cache /\ Truthy(_cache["name"])

\* The get trap (GraphQLAbstract.js:189-262).
Lists_get(prop) ==
  /\ variant = "Lists"
  /\ LET direct == Direct(prop)
     IN  IF Truthy(direct)
         THEN /\ last' = Returned("get", prop, direct)
              /\ UNCHANGED <<inflight, nCalls>>
         ELSE IF CacheHit(prop)
         THEN /\ last' = Returned("get", prop, _cache[prop])
              /\ UNCHANGED <<inflight, nCalls>>
         ELSE IF prop \in DOMAIN _manyToManyFields(cls)
         THEN \* generateSet: not a function on a string, unimplemented on a class
              /\ last' = Settled("get", prop,
                                 IF _manyToManyFields(cls)[prop] \in GraphQLAbstractClasses
                                 THEN "NotImplementedError" ELSE "TypeError", Undefined)
              /\ UNCHANGED <<inflight, nCalls>>
         ELSE IF prop \in DOMAIN _manyToOneFields(cls)
         THEN /\ last' = Settled("get", prop,
                                 IF _manyToOneFields(cls)[prop] \in GraphQLAbstractClasses
                                 THEN "NotImplementedError" ELSE "TypeError", Undefined)
              /\ UNCHANGED <<inflight, nCalls>>
         ELSE IF prop \in _primitiveFields(cls)
         THEN IF _loadPrimitives_hit
              THEN \* nothing loaded, and the field is not in the cache
                   /\ last' = Settled("get", prop, "ReferenceError", Undefined)
                   /\ UNCHANGED <<inflight, nCalls>>
              ELSE IssueCall("get", prop,
                             [api |-> "graphql.loadPrimitives", prop |-> prop,
                              query |-> _primitiveFields(cls), map |-> IdentityMap(0)])
         ELSE /\ last' = Returned("get", prop, Undefined)
              /\ UNCHANGED <<inflight, nCalls>>
  /\ UNCHANGED <<workflow, variant, cls, props, _cache, _issue, _PAGE_SIZE, all>>

\* _loadPrimitives' handler (Label.js:136-144, Issue.js:236-247) followed by
\* the get trap's own (GraphQLAbstract.js:251-257).
_loadPrimitives_then(req, resp) ==
  IF ~resp.ok
  THEN [cache |-> _cache, outcome |-> "ApiError", value |-> Undefined]
  ELSE IF resp.missing > 0
  THEN [cache |-> _cache, outcome |-> "TypeError", value |-> Undefined]
  ELSE LET cache2 == Merge(_cache, resp.data)
       IN  IF req.prop \in DOMAIN cache2
           THEN [cache |-> cache2, outcome |-> "fulfilled", value |-> cache2[req.prop]]
           ELSE [cache |-> cache2, outcome |-> "ReferenceError", value |-> Undefined]

SettleLists(i) ==
  /\ variant = "Lists"
  /\ i \in DOMAIN inflight
  /\ LET req == inflight[i]
     IN  \E resp \in PrimitiveResponses(req.query) :
           LET r == _loadPrimitives_then(req, resp)
           IN  /\ _cache' = r.cache
               /\ last' = Step("settle", req.prop, 0, r.outcome, r.value, Of(req),
                                Carrying(Answer(resp.ok, resp.missing = 0), resp.data))
  /\ inflight' = RemoveAt(inflight, i)
  /\ UNCHANGED <<workflow, variant, cls, props, _issue, _PAGE_SIZE, all, nCalls>>

\* `prop in entity`: the handler is the instance, and `has` is a static
\* method of the class (GraphQLAbstract.js:84-100), which an instance does not
\* inherit, so no trap runs and the test is the instance's own.
Lists_has(prop) ==
  /\ variant = "Lists"
  /\ last' = Returned("has", prop, Bool(ReflectHas(prop)))
  /\ UNCHANGED <<workflow, variant, cls, props, _cache, _issue, _PAGE_SIZE, inflight, all, nCalls>>

\* `entity[prop] = value` where the proxy's handler has no set trap: an
\* ordinary assignment to the instance.
Assign(prop, value) ==
  /\ variant = "Lists"
  /\ prop \in DOMAIN props
  /\ props' = [props EXCEPT ![prop] = value]
  /\ last' = Step("set", prop, 0, "returned", value, NoRequest, NoResponse)
  /\ UNCHANGED <<workflow, variant, cls, _cache, _issue, _PAGE_SIZE, inflight, all, nCalls>>

(***************************************************************************)
(* "Rest" generation (src/unnamed/part_002).                               *)
(***************************************************************************)
\* this[prop] on the instance: an own property, or the cached `_issue`.
Rest_own(prop) == Direct(prop)

\* Issue#get (part_002:194-214) with Issue#_load (part_002:132-165).
Rest_get(prop) ==
  /\ variant = "Rest"
  /\ IF Truthy(Rest_own(prop))
     THEN /\ last' = Returned("get", prop, Rest_own(prop))
          /\ UNCHANGED <<inflight, nCalls>>
     ELSE IF _issue # << >>
     THEN /\ last' = Settled("get", prop, "fulfilled",
                             IF prop \in DOMAIN _issue[1] THEN _issue[1][prop] ELSE Undefined)
          /\ UNCHANGED <<inflight, nCalls>>
     ELSE IssueCall("get", prop,
                    [api |-> "rest.get", prop |-> prop, query |-> {}, map |-> IdentityMap(0)])
  /\ UNCHANGED <<workflow, variant, cls, props, _cache, _issue, _PAGE_SIZE, all>>

\* The REST responses to issues.get: rejected, a status outside 200..299, or data.
RestFields == {"title", "number"}

RestResponses ==
  {[ok |-> FALSE, status |-> 0, data |-> << >>], [ok |-> TRUE, status |-> 404, data |-> << >>]}
    \cup {[ok |-> TRUE, status |-> 200, data |-> d] : d \in DataObjects(RestFields)}

\* A handler that answers a rejected call with an unloaded Issue.
_load_then_swallowing(req, resp) ==
  IF ~resp.ok
  THEN [issue |-> <<resp.data>>, outcome |-> "fulfilled", value |-> Undefined]
  ELSE IF resp.status < 200 \/ resp.status > 299
  THEN [issue |-> _issue, outcome |-> "ReferenceError", value |-> Undefined]
  ELSE [issue |-> <<resp.data>>, outcome |-> "fulfilled",
        value |-> IF req.prop \in DOMAIN resp.data THEN resp.data[req.prop] ELSE Undefined]

\* Issue#_load's handler (part_002:152-164) and the rest of get (part_002:208-212).
_load_then(req, resp) ==
  IF ~resp.ok
  THEN [issue |-> _issue, outcome |-> "ApiError", value |-> Undefined]
  ELSE IF resp.status < 200 \/ resp.status > 299
  THEN [issue |-> _issue, outcome |-> "ReferenceError", value |-> Undefined]
  ELSE [issue |-> <<resp.data>>, outcome |-> "fulfilled",
        value |-> IF req.prop \in DOMAIN resp.data THEN resp.data[req.prop] ELSE Undefined]

\* Issue#addLabels (part_002:228-256): one REST call.
LabelLists == {<< >>, <<"bug">>, <<"bug", "docs">>}

addLabels(labels) ==
  /\ variant = "Rest"
  /\ IssueCall("addLabels", "", [api |-> "rest.addLabels", prop |-> "",
                                 query |-> {labels[k] : k \in DOMAIN labels}, map |-> IdentityMap(0)])
  /\ UNCHANGED <<workflow, variant, cls, props, _cache, _issue, _PAGE_SIZE, all>>

\* A handler that leaves `_issue` as it is.
addLabels_then_keeping(resp) ==
  IF ~resp.ok
  THEN [issue |-> _issue, outcome |-> "ApiError"]
  ELSE [issue |-> _issue, outcome |-> "ReferenceError"]

\* addLabels' handler (part_002:247-255): clears the cache, then calls the
\* undeclared `resolve`.
addLabels_then(resp) ==
  IF ~resp.ok
  THEN [issue |-> _issue, outcome |-> "ApiError"]
  ELSE [issue |-> << >>, outcome |-> "ReferenceError"]

\* Issue#removeLabels (part_002:269-307): one REST call per label, then
\* Promise.all(promises).finally(clear).
removeLabels(labels) ==
  /\ variant = "Rest"
  /\ all.pending = 0
  /\ CanIssue(Len(labels))
  /\ inflight' = inflight \o [k \in DOMAIN labels |->
                                Awaiting([api |-> "rest.removeLabel", prop |-> "",
                                          query |-> {labels[k]}, map |-> IdentityMap(0)])]
  /\ nCalls' = nCalls + Len(labels)
  /\ IF labels = << >>
     THEN /\ _issue' = << >>
          /\ all' = [pending |-> 0, settled |-> TRUE]
          /\ last' = Settled("removeLabels", "", "fulfilled", Undefined)
     ELSE /\ _issue' = _issue
          /\ all' = [pending |-> Len(labels), settled |-> FALSE]
          /\ last' = Step("removeLabels", "", Len(labels), "pending", Undefined, NoRequest, NoResponse)
  /\ UNCHANGED <<workflow, variant, cls, props, _cache, _PAGE_SIZE>>

\* One removal's answer reaching Promise.all(...).finally(...) (part_002:301-306).
removeLabels_finally(resp) ==
  IF all.settled
  THEN [issue |-> _issue, settled |-> TRUE, outcome |-> "ignored"]
  ELSE IF ~resp.ok
  THEN [issue |-> << >>, settled |-> TRUE, outcome |-> "ApiError"]
  ELSE IF all.pending = 1
  THEN [issue |-> << >>, settled |-> TRUE, outcome |-> "fulfilled"]
  ELSE [issue |-> _issue, settled |-> FALSE, outcome |-> "pending"]

SettleRest(i) ==
  /\ variant = "Rest"
  /\ i \in DOMAIN inflight
  /\ LET req == inflight[i]
     IN  \/ /\ req.api = "rest.get"
            /\ \E resp \in RestResponses :
                 LET r == _load_then(req, resp)
                 IN  /\ _issue' = r.issue
                     /\ last' = Step("settle", req.prop, 0, r.outcome, r.value, Of(req),
                                      Carrying(Answer(resp.ok, resp.status = 200), resp.data))
            /\ all' = all
         \/ /\ req.api = "rest.addLabels"
            /\ \E ok \in BOOLEAN :
                 LET r == addLabels_then([ok |-> ok])
                 IN  /\ _issue' = r.issue
                     /\ last' = Step("settle", "", 0, r.outcome, Undefined, Of(req),
                                      Carrying(Answer(ok, TRUE), << >>))
            /\ all' = all
         \/ /\ req.api = "rest.removeLabel"
            /\ \E ok \in BOOLEAN :
                 LET r == removeLabels_finally([ok |-> ok])
                 IN  /\ _issue' = r.issue
                     /\ all' = [pending |-> all.pending - 1, settled |-> r.settled]
                     /\ last' = Step("settle", "", 0, r.outcome, Undefined, Of(req),
                                      Carrying(Answer(ok, TRUE), << >>))
  /\ inflight' = RemoveAt(inflight, i)
  /\ UNCHANGED <<workflow, variant, cls, props, _cache, _PAGE_SIZE, nCalls>>

(***************************************************************************)
(* Logger (Logger.js:19-622, src/unnamed/part_001).                        *)
(***************************************************************************)
\* static LEVEL (Logger.js:94-98).
LEVEL == [DEFAULT |-> Num(0), DEBUG |-> Num(1), VERBOSE |-> Num(2)]

DebugVariables == {"ACTIONS_RUNNER_DEBUG", "ACTIONS_STEP_DEBUG", "ACTIONS_DEBUG_VERBOSE"}

\* A variable of process.env is absent (undefined here) or a string.
Environments == [DebugVariables -> {Undefined, Str(""), Str("true"), Str("false")}]

NoEnvironment == [v \in DebugVariables |-> Undefined]

\* `"X" in process.env && process.env.X`
InEnv(x) == env[x] # Undefined /\ Truthy(env[x])

\* `get debugLevel()` (Logger.js:205-226): the level it returns, which is
\* also the level it leaves in _debugLevel.
debugLevel_get ==
  IF _debugLevel # Undefined THEN _debugLevel
  ELSE IF InEnv("ACTIONS_RUNNER_DEBUG") \/ InEnv("ACTIONS_STEP_DEBUG")
  THEN IF InEnv("ACTIONS_DEBUG_VERBOSE") THEN LEVEL.VERBOSE ELSE LEVEL.DEBUG
  ELSE LEVEL.DEFAULT

\* Nothing written yet.
NoLines == [group |-> 0, endgroup |-> 0, DEBUG |-> 0, VERBOSE |-> 0,
            WARNING |-> 0, NOTICE |-> 0]

\* console.log of one line of `kind`.
Log(kind) == [console EXCEPT ![kind] = @ + 1]

\* The state `new Logger(...)` leaves (Logger.js:107, 161-165).
LoggerConstructed ==
  /\ _debugLevel = Undefined
  /\ _groupLevel = 0
  /\ console = NoLines

\* The handler has not been called.
NotCalled == [pc |-> "idle", labels |-> << >>, found |-> FALSE, promise |-> "none",
              removals |-> << >>, comments |-> 0, unhandled |-> 0]

\* logger.debugLevel read by a caller.
debugLevel ==
  /\ _debugLevel' = debugLevel_get
  /\ last' = Returned("debugLevel", "", debugLevel_get)
  /\ UNCHANGED <<entity, env, _groupLevel, console, handler>>

\* Logger#debug(message) (Logger.js:272-276), for a one-line message.
debug ==
  /\ console.DEBUG < MaxLines
  /\ _debugLevel' = debugLevel_get
  /\ console' = IF debugLevel_get[3] >= 1 THEN Log("DEBUG") ELSE console
  /\ last' = Returned("debug", "", Undefined)
  /\ UNCHANGED <<entity, env, _groupLevel, handler>>

\* Logger#verbose(message) (Logger.js:288-292), for a one-line message.
verbose ==
  /\ console.VERBOSE < MaxLines
  /\ _debugLevel' = debugLevel_get
  /\ console' = IF debugLevel_get[3] >= 2 THEN Log("VERBOSE") ELSE console
  /\ last' = Returned("verbose", "", Undefined)
  /\ UNCHANGED <<entity, env, _groupLevel, handler>>

\* Logger#startGroup(title) (Logger.js:585-588).
startGroup ==
  /\ console.group < MaxGroups
  /\ console' = Log("group")
  /\ _groupLevel' = _groupLevel + 1
  /\ last' = Returned("startGroup", "", Undefined)
  /\ UNCHANGED <<entity, env, _debugLevel, handler>>

\* An endGroup without the test of the level.
endGroup_from_unguarded(level, lines) ==
  [outcome |-> "returned", level |-> level - 1,
   lines |-> [lines EXCEPT !.endgroup = @ + 1]]

\* Logger#endGroup() (Logger.js:601-608) from `level` with `lines` written:
\* what it throws or returns, and the level and lines it leaves.
endGroup_from(level, lines) ==
  IF level <= 0
  THEN [outcome |-> "RangeError", level |-> level, lines |-> lines]
  ELSE [outcome |-> "returned", level |-> level - 1,
        lines |-> [lines EXCEPT !.endgroup = @ + 1]]

endGroup ==
  /\ LET r == endGroup_from(_groupLevel, console)
     IN  /\ _groupLevel' = r.level
         /\ console' = r.lines
         /\ last' = Step("endGroup", "", 0, r.outcome, Undefined, NoRequest, NoResponse)
  /\ UNCHANGED <<entity, env, _debugLevel, handler>>

\* A loop that leaves the outermost group open.
endAllGroups_from_leavingOne(level, lines) ==
  IF level > 1
  THEN [outcome |-> "returned", level |-> 1,
        lines |-> [lines EXCEPT !.endgroup = @ + level - 1]]
  ELSE [outcome |-> "returned", level |-> level, lines |-> lines]

\* Logger#endAllGroups() (Logger.js:617-621): `while (_groupLevel > 0) endGroup()`.
RECURSIVE endAllGroups_from(_, _)
endAllGroups_from(level, lines) ==
  IF level > 0
  THEN LET r == endGroup_from(level, lines)
       IN  IF r.outcome # "returned" THEN r ELSE endAllGroups_from(r.level, r.lines)
  ELSE [outcome |-> "returned", level |-> level, lines |-> lines]

endAllGroups ==
  /\ LET r == endAllGroups_from(_groupLevel, console)
     IN  /\ _groupLevel' = r.level
         /\ console' = r.lines
         /\ last' = Step("endAllGroups", "", 0, r.outcome, Num(_groupLevel), NoRequest, NoResponse)
  /\ UNCHANGED <<entity, env, _debugLevel, handler>>

\* One Logger in one environment, and no entity.
NoEntity ==
  /\ variant = "Rest"
  /\ cls = "Issue"
  /\ props = << >>
  /\ _cache = << >>
  /\ _issue = << >>
  /\ _PAGE_SIZE = [GraphQLAbstract |-> GraphQLAbstract_PAGE_SIZE, Issue |-> GraphQLAbstract_PAGE_SIZE,
                   Label |-> GraphQLAbstract_PAGE_SIZE, ProjectV2Item |-> ProjectV2Item_PAGE_SIZE]
  /\ inflight = << >>
  /\ all = [pending |-> 0, settled |-> TRUE]
  /\ nCalls = 0

LoggerInit ==
  /\ NoEntity
  /\ env \in Environments
  /\ LoggerConstructed
  /\ handler = NotCalled
  /\ last = Returned("new", "", Undefined)

LoggerNext ==
  \/ debugLevel
  \/ debug
  \/ verbose
  \/ startGroup
  \/ endGroup
  \/ endAllGroups

LoggerSpec == LoggerInit /\ [][LoggerNext]_vars

(***************************************************************************)
(* OnIssues.handleUserAssigned (OnIssues.js:27-109) on the Issue of        *)
(* part_002, the generation that declares removeLabels.  The handler runs  *)
(* from one `await` that suspends it to the next in one step; the API's    *)
(* answers arrive in steps of their own.                                   *)
(***************************************************************************)
\* The names GitHub may report on the Issue, in the order reported; two
\* labels of one repository never differ in case alone.
Names == <<"Help Wanted", "help wanted", "Needs Triage", "bug">>

\* String.prototype.toLowerCase, on those names.
toLowerCase(name) ==
  CASE name = "Help Wanted" -> "help wanted"
    [] name = "Needs Triage" -> "needs triage"
    [] OTHER -> name

RECURSIVE Chosen(_, _)
Chosen(i, chosen) ==
  IF i > Len(Names) THEN << >>
  ELSE (IF i \in chosen THEN <<Names[i]>> ELSE << >>) \o Chosen(i + 1, chosen)

FetchedLabels ==
  {Chosen(1, chosen) : chosen \in {c \in SUBSET DOMAIN Names :
      \A i, j \in c : toLowerCase(Names[i]) = toLowerCase(Names[j]) => i = j}}

\* The answers to rest.issues.get: rejected, a status outside 200..299, data
\* without a `labels` key, or data with labels.
HandlerResponses ==
  {[ok |-> FALSE, status |-> 0, has |-> FALSE, labels |-> << >>],
   [ok |-> TRUE, status |-> 404, has |-> FALSE, labels |-> << >>],
   [ok |-> TRUE, status |-> 200, has |-> FALSE, labels |-> << >>]}
    \cup {[ok |-> TRUE, status |-> 200, has |-> TRUE, labels |-> l] : l \in FetchedLabels}

\* The names of `labels` whose lower-cased name is `wanted`, in order
\* (the test of each forEach callback, OnIssues.js:40, 53).
Matching(labels, wanted) == SelectSeq(labels, LAMBDA name : toLowerCase(name) = wanted)

\* `issue.addWarning(...)` (OnIssues.js:62): the class declares no such
\* method (part_002:328-336 is commented out), so the get trap answers the
\* promise of its async lookup (part_002:194-214), and calling a promise
\* throws inside the callback.
addWarning == [outcome |-> "TypeError", issued |-> 0]

\* The call: up to `await issue.labels` (OnIssues.js:28-37), which issues
\* rest.issues.get through the get trap and Issue#_load.
handleUserAssigned ==
  /\ handler.pc = "idle"
  /\ _debugLevel' = debugLevel_get
  /\ _groupLevel' = _groupLevel + 1
  /\ console' = [console EXCEPT !.DEBUG = IF debugLevel_get[3] >= 1 THEN @ + 1 ELSE @,
                                !.group = @ + 1]
  /\ IssueCall("handleUserAssigned", "labels",
               [api |-> "rest.get", prop |-> "labels", query |-> {}, map |-> IdentityMap(0)])
  /\ handler' = [handler EXCEPT !.pc = "labels", !.promise = "pending"]
  /\ UNCHANGED <<variant, cls, props, _cache, _issue, _PAGE_SIZE, all, env>>

\* The handler from `labels.forEach` to its end (OnIssues.js:39-79), for the
\* labels it fetched.  Neither forEach waits for its callbacks: a removal is
\* requested and left in flight, and the callback that calls addWarning
\* throws.
handleUserAssigned_rest(labels) ==
  LET helpWanted == Matching(labels, "help wanted")
      needsTriage == Matching(labels, "needs triage")
      found == needsTriage # << >>
  IN  /\ CanIssue(Len(helpWanted))
      /\ inflight' = RemoveAt(inflight, 1) \o
                       [k \in DOMAIN helpWanted |->
                          Awaiting([api |-> "rest.removeLabel", prop |-> "",
                                    query |-> {helpWanted[k]}, map |-> IdentityMap(0)])]
      /\ nCalls' = nCalls + Len(helpWanted)
      /\ all' = IF helpWanted = << >> THEN all
                ELSE [pending |-> Len(helpWanted), settled |-> FALSE]
      /\ console' = [console EXCEPT !.endgroup = @ + 2, !.group = @ + 1,
                                    !.WARNING = @ + Len(needsTriage),
                                    !.NOTICE = IF found THEN @ ELSE @ + 1]
      /\ _groupLevel' = endGroup_from(endGroup_from(_groupLevel, console).level + 1, console).level
      /\ handler' = [handler EXCEPT !.pc = "done", !.labels = labels, !.found = found,
                                    !.promise = "fulfilled", !.removals = helpWanted,
                                    !.comments = Len(needsTriage) * addWarning.issued,
                                    !.unhandled = IF addWarning.outcome = "returned" THEN 0
                                                  ELSE Len(needsTriage)]

\* The answer to rest.issues.get reaches Issue#_load's handler
\* (part_002:152-164) and the handler resumes.  A rejection, a status
\* outside 200..299 and data without `labels` (`labels.forEach` of
\* undefined) each reject the handler's promise where it stands.
handleUserAssigned_resume ==
  /\ handler.pc = "labels"
  /\ inflight # << >> /\ inflight[1].api = "rest.get"
  /\ \E resp \in HandlerResponses :
       LET r == _load_then(inflight[1], [ok |-> resp.ok, status |-> resp.status,
                                         data |-> [number |-> Direct("number")]])
           outcome == IF r.outcome # "fulfilled" THEN r.outcome
                      ELSE IF ~resp.has THEN "TypeError"
                      ELSE "fulfilled"
       IN  /\ _issue' = r.issue
           /\ IF outcome = "fulfilled"
              THEN handleUserAssigned_rest(resp.labels)
              ELSE /\ inflight' = RemoveAt(inflight, 1)
                   /\ handler' = [handler EXCEPT !.pc = "done", !.promise = outcome]
                   /\ UNCHANGED <<nCalls, all, console, _groupLevel>>
           /\ last' = Step("resume", "labels", Len(inflight'), outcome, Undefined,
                           Of(inflight[1]), Carrying(Answer(resp.ok, resp.status = 200 /\ resp.has), << >>))
  /\ UNCHANGED <<variant, cls, props, _cache, _PAGE_SIZE, env, _debugLevel>>

\* The answer to one rest.issues.removeLabel reaches removeLabels' promise
\* (part_002:293-306); nothing handles its rejection.
handleUserAssigned_removed ==
  /\ handler.pc = "done"
  /\ inflight # << >> /\ inflight[1].api = "rest.removeLabel"
  /\ \E ok \in BOOLEAN :
       LET r == removeLabels_finally([ok |-> ok])
       IN  /\ _issue' = r.issue
           /\ all' = [pending |-> all.pending - 1, settled |-> r.settled]
           /\ handler' = [handler EXCEPT !.unhandled = IF r.outcome = "ApiError" THEN @ + 1 ELSE @]
           /\ last' = Step("settle", "", 0, r.outcome, Undefined, Of(inflight[1]),
                           Carrying(Answer(ok, TRUE), << >>))
  /\ inflight' = RemoveAt(inflight, 1)
  /\ UNCHANGED <<variant, cls, props, _cache, _PAGE_SIZE, nCalls, env, _debugLevel, _groupLevel, console>>

\* An Issue built for the event's issue number, a new Logger, and the
\* environment the workflow runs in.
HandlerInit ==
  /\ variant = "Rest"
  /\ cls = "Issue"
  /\ props = [number |-> Num(1), repository |-> Str("widgets"), owner |-> Str("acme")]
  /\ _cache = << >>
  /\ _issue = << >>
  /\ _PAGE_SIZE = [GraphQLAbstract |-> GraphQLAbstract_PAGE_SIZE, Issue |-> GraphQLAbstract_PAGE_SIZE,
                   Label |-> GraphQLAbstract_PAGE_SIZE, ProjectV2Item |-> ProjectV2Item_PAGE_SIZE]
  /\ inflight = << >>
  /\ all = [pending |-> 0, settled |-> TRUE]
  /\ nCalls = 0
  /\ env \in Environments
  /\ LoggerConstructed
  /\ handler = NotCalled
  /\ last = Returned("new", "", Undefined)

HandlerNext ==
  \/ handleUserAssigned
  \/ handleUserAssigned_resume
  \/ handleUserAssigned_removed

HandlerSpec == HandlerInit /\ [][HandlerNext]_vars

(***************************************************************************)
(* Issue#reload of the two generations that declare it.                    *)
(***************************************************************************)
\* `reload() { return this._load(true) }`.  part_002:176-178 reaches
\* Issue#_load (part_002:132-165), which calls the API whatever is cached.
\* Issue.js:278-280 belongs to the class whose loader is _loadPrimitives:
\* `this._load` is looked up through the get trap, which answers undefined
\* (GraphQLAbstract.js:260-261), and calling it rejects the async method.
reload ==
  /\ cls = "Issue"
  /\ \/ /\ variant = "Rest"
        /\ IssueCall("reload", "",
                     [api |-> "rest.get", prop |-> "", query |-> {}, map |-> IdentityMap(0)])
     \/ /\ variant = "Lists"
        /\ last' = Settled("reload", "", "TypeError", Undefined)
        /\ UNCHANGED <<inflight, nCalls>>
  /\ UNCHANGED <<workflow, variant, cls, props, _cache, _issue, _PAGE_SIZE, all>>

(***************************************************************************)
(* The specification.                                                      *)
(***************************************************************************)
\* The properties a caller reads: identity fields, the declared fields and
\* an undeclared one.
ReadProps ==
  {KeyField(cls), "owner"}
    \cup (CASE variant = "Fields" -> DOMAIN _fields(cls) \cup {"foobar"}
            [] variant = "Lists" -> _primitiveFields(cls) \cup DOMAIN _manyToManyFields(cls)
                                      \cup DOMAIN _manyToOneFields(cls) \cup {"foobar"}
            [] OTHER -> RestFields)

\* The properties a caller tests with `in`: the key identity field, a
\* registered field and an undeclared property.
TestedProps == {KeyField(cls), IF cls = "Issue" THEN "title" ELSE "color", "foobar"}

\* The properties a caller assigns: identity fields, a primitive field, a
\* relation and an undeclared property.
AssignedProps ==
  {KeyField(cls), "owner", "foobar"}
    \cup (IF cls = "Issue" THEN {"title", "labels"} ELSE {"color"})

AssignedValues(prop) ==
  CASE prop = KeyField(cls) -> AssignedKeys(cls)
    [] prop = "owner" -> {Str("acme")}
    [] prop = "repository" -> {Str("widgets")}
    [] OTHER -> {Str("x")}

\* The state a constructor leaves (part_003:121-134, Label.js:245-260,
\* part_002:99-118): the identity assigned, every cache empty, nothing issued.
\* The static Label._PAGE_SIZE is the inherited 20, or it is overridden with
\* the value ProjectV2Item overrides it with (2), as the documentation of
\* the constant invites (GraphQLAbstract.js:169-170).
Init ==
  /\ \E e \in Entities : variant = e[1] /\ cls = e[2]
  /\ \E key \in ConstructorKeys(cls) :
       props = [f \in IdentityFields(cls) |->
                  IF f = KeyField(cls) THEN key
                  ELSE IF f = "owner" THEN Str("acme") ELSE Str("widgets")]
  /\ _cache = << >>
  /\ _issue = << >>
  /\ \E l \in {GraphQLAbstract_PAGE_SIZE, ProjectV2Item_PAGE_SIZE} :
       /\ (l # GraphQLAbstract_PAGE_SIZE =>
             variant = "Fields" /\ cls = "Issue" /\ Truthy(props[KeyField(cls)]))
       /\ _PAGE_SIZE = [GraphQLAbstract |-> GraphQLAbstract_PAGE_SIZE, Issue |-> GraphQLAbstract_PAGE_SIZE,
                        Label |-> l, ProjectV2Item |-> ProjectV2Item_PAGE_SIZE]
  /\ inflight = << >>
  /\ all = [pending |-> 0, settled |-> TRUE]
  /\ nCalls = 0
  /\ last = Returned("new", "", Undefined)
  /\ env = NoEnvironment
  /\ LoggerConstructed
  /\ handler = NotCalled

Next ==
  \/ \E prop \in ReadProps : Fields_get(prop)
  \/ \E prop \in ReadProps : Lists_get(prop)
  \/ \E prop \in ReadProps : Rest_get(prop)
  \/ \E prop \in AssignedProps : \E value \in AssignedValues(prop) : Fields_set(prop, value)
  \/ \E prop \in AssignedProps : \E value \in AssignedValues(prop) : Assign(prop, value)
  \/ \E related \in {"ProjectV2Item", "Issue", "Label"} : create(related)
  \/ \E prop \in TestedProps : Fields_has(prop)
  \/ \E prop \in TestedProps : Lists_has(prop)
  \/ clearCache
  \/ reload
  \/ \E labels \in LabelLists : addLabels(labels)
  \/ \E labels \in LabelLists : removeLabels(labels)
  \/ \E i \in 1..MaxInFlight : SettleFields(i)
  \/ \E i \in 1..MaxInFlight : SettleLists(i)
  \/ \E i \in 1..MaxInFlight : SettleRest(i)

Spec == Init /\ [][Next]_vars

(***************************************************************************)
(* Label._build (Label.js:347-373), a static function of its arguments.    *)
(* BuildSpec draws a call's arguments in its initial state and applies the *)
(* function to them; the Label it builds is left in `props` and `_cache`.  *)
(***************************************************************************)
\* The keys a `data` object may have: the three the function requires, a
\* registered field, an unregistered one, and the key that `!key in data`
\* looks up.
BuildKeys == {"owner", "repository", "name", "color", "foobar", "false"}

BuildData == UNION {[D -> {Str("x")}] : D \in SUBSET BuildKeys}

\* `["owner", "repository", "name"].every((key) => { if (!key in data) throw ... })`
\* (Label.js:355-359): `!key` is false for every key, so the test is
\* `"false" in data`; the callback returns undefined, which ends `every`
\* after the first key.
_build_required(data) == IF "false" \in DOMAIN data THEN {"owner"} ELSE {}

\* `new Label(data["name"], data["repository"], data["owner"])`
\* (Label.js:245-260): a falsy repository or owner becomes the workflow
\* context's.
_build_Label(data) ==
  [f \in IdentityFields("Label") |->
     LET given == IF f \in DOMAIN data THEN data[f] ELSE Undefined
     IN  IF f = "name" THEN given
         ELSE IF Truthy(given) THEN given
         ELSE IF f = "owner" THEN Str("acme") ELSE Str("widgets")]

\* Label._build(data, ignoreAdditional): the outcome of the promise and the
\* Label it resolves to.
_build(data, ignoreAdditional) ==
  IF _build_required(data) # {}
  THEN [outcome |-> "ReferenceError", props |-> << >>, cache |-> << >>]
  ELSE IF ~ignoreAdditional /\ \E key \in DOMAIN data : key \notin DOMAIN _fields("Label")
  THEN [outcome |-> "ReferenceError", props |-> << >>, cache |-> << >>]
  ELSE [outcome |-> "fulfilled", props |-> _build_Label(data), cache |-> data]

\* A call Label._build(data, ignoreAdditional) is about to be made; `last`
\* holds its arguments.
BuildInit ==
  /\ variant = "Fields"
  /\ cls = "Label"
  /\ props = << >>
  /\ _cache = << >>
  /\ _issue = << >>
  /\ _PAGE_SIZE = [GraphQLAbstract |-> GraphQLAbstract_PAGE_SIZE, Issue |-> GraphQLAbstract_PAGE_SIZE,
                   Label |-> GraphQLAbstract_PAGE_SIZE, ProjectV2Item |-> ProjectV2Item_PAGE_SIZE]
  /\ inflight = << >>
  /\ all = [pending |-> 0, settled |-> TRUE]
  /\ nCalls = 0
  /\ env = NoEnvironment
  /\ LoggerConstructed
  /\ handler = NotCalled
  /\ \E data \in BuildData : \E ignoreAdditional \in BOOLEAN :
       last = Step("_build", "", 0, "pending", Bool(ignoreAdditional), NoRequest,
                   Carrying("none", data))

\* The call is made and its promise settles.
Label_build ==
  /\ last.op = "_build"
  /\ last.outcome = "pending"
  /\ LET r == _build(last.data, last.value = Bool(TRUE))
     IN  /\ props' = r.props
         /\ _cache' = r.cache
         /\ last' = [last EXCEPT !.outcome = r.outcome]
  /\ UNCHANGED <<workflow, variant, cls, _issue, _PAGE_SIZE, inflight, all, nCalls>>

BuildNext == Label_build

BuildSpec == BuildInit /\ [][BuildNext]_vars

(***************************************************************************)
(* Properties.  `last` records the step just taken, so a property of an    *)
(* operation is a predicate on the state the operation leaves.             *)
(***************************************************************************)
\* A primitive batch fetch of the "Fields" generation has just been answered
\* with a complete response.
PrimitiveFetchCompleted ==
  /\ variant = "Fields"
  /\ last.op = "settle"
  /\ last.api = "graphql.primitives"
  /\ last.answer = "ok"

\* A read of a registered primitive field that the cache does not hold.
UncachedPrimitiveRead ==
  /\ variant = "Fields"
  /\ last.op = "get"
  /\ last.prop \in _getPrimitiveFields(cls)
  /\ last.prop \notin DOMAIN _cache

\* C1 as stated: a read of a registered primitive field f that the cache does
\* not hold issues exactly one GraphQL call whose query lists all primitive
\* fields of the type; when the call completes the cache holds a value for
\* every declared primitive field and the read resolves to the cached value
\* of f.
C1_AsStated ==
  /\ UncachedPrimitiveRead =>
       /\ last.issued = 1
       /\ last.api = "graphql.primitives"
       /\ last.query = _getPrimitiveFields(cls)
  /\ PrimitiveFetchCompleted =>
       /\ _getPrimitiveFields(cls) \subseteq DOMAIN _cache
       /\ last.value = _cache[last.prop]

\* C1 amended: a read of a registered primitive field f that is neither set
\* on the instance nor held by the cache issues exactly one GraphQL call whose
\* query lists all primitive fields of the type; when the call completes the
\* cache holds, for every field the response carries, the field's resolver
\* applied to the value sent, and the read resolves to the cached value of f
\* when the cache then holds f.
C1_BatchFetch ==
  /\ (UncachedPrimitiveRead /\ Direct(last.prop) = Undefined) =>
       /\ last.issued = 1
       /\ last.outcome = "pending"
       /\ last.api = "graphql.primitives"
       /\ last.query = {f \in DOMAIN _fields(cls) : _fields(cls)[f] \in {"String", "Number"}}
  /\ PrimitiveFetchCompleted =>
       /\ last.outcome = "fulfilled"
       /\ DOMAIN last.data \subseteq DOMAIN _cache
       /\ \A f \in DOMAIN last.data : _cache[f] = Apply(_fields(cls)[f], last.data[f])
       /\ last.prop \in DOMAIN _cache => last.value = _cache[last.prop]

\* A batch fetch issued for `title` was answered with every primitive field,
\* and the cache, empty before, now holds them all.
C1_Witness ==
  /\ PrimitiveFetchCompleted
  /\ last.prop = "title"
  /\ ~last.held
  /\ DOMAIN last.data = _getPrimitiveFields(cls)
  /\ DOMAIN _cache = _getPrimitiveFields(cls)
  /\ last.value = _cache["title"]

\* The step about to be taken reads a field the cache holds ("Fields", "Lists").
CachedRead ==
  /\ variant \in {"Fields", "Lists"}
  /\ last'.op = "get"
  /\ last'.prop \in DOMAIN _cache

\* The read issued nothing and left the cache as it was.
ReadFromCache ==
  /\ nCalls' = nCalls
  /\ inflight' = inflight
  /\ _cache' = _cache
  /\ last'.issued = 0
  /\ last'.outcome = "returned"

\* Whether the get trap answers `prop` from the instance itself.
SetOnInstance(prop) ==
  IF variant = "Fields" THEN Direct(prop) # Undefined ELSE Truthy(Direct(prop))

\* C2 as stated: a read of a field that is already in the entity's cache
\* (primitive or relational) issues zero API calls, leaves the cache unchanged
\* and returns the cached value.
C2_AsStated ==
  [][CachedRead => (ReadFromCache /\ last'.value = _cache[last'.prop])]_vars

\* C2 amended: a read of a field that is already in the entity's cache issues
\* zero API calls and leaves the cache unchanged; it returns the cached value,
\* unless the field is also set on the instance, and then it returns the
\* instance's value.
C2_CachedRead ==
  [][CachedRead =>
       /\ ReadFromCache
       /\ last'.value = IF SetOnInstance(last'.prop) THEN Direct(last'.prop)
                        ELSE _cache[last'.prop]]_vars

\* With a primitive field and a collection cached, the collection was read
\* again and came from the cache.
C2_Witness ==
  /\ variant = "Fields"
  /\ last.op = "get"
  /\ last.prop = "labels"
  /\ {"title", "labels"} \subseteq DOMAIN _cache
  /\ last.issued = 0
  /\ last.value = _cache["labels"]
  /\ nCalls = 2
  /\ inflight = << >>

\* A mutation of the "Rest" Issue has been performed: the add-labels call was
\* answered, or every remove-label call was.
MutationPerformed ==
  /\ variant = "Rest"
  /\ \/ last.op = "settle" /\ last.api = "rest.addLabels" /\ last.answer = "ok"
     \/ last.op = "settle" /\ last.api = "rest.removeLabel" /\ last.outcome = "fulfilled"
     \/ last.op = "removeLabels" /\ last.outcome = "fulfilled"

\* C3: once a mutation (Issue.addLabels, Issue.removeLabels) has been
\* performed the Issue's cached data is cleared in full, and a read issued
\* immediately after it, of a field not set on the instance, triggers a fresh
\* fetch.
C3_MutationClears ==
  [][/\ MutationPerformed' => _issue' = << >>
     /\ (MutationPerformed /\ last'.op = "get" /\ ~Truthy(Direct(last'.prop))) =>
          /\ last'.issued = 1
          /\ last'.api = "rest.get"
          /\ nCalls' = nCalls + 1]_vars

\* A mutation was performed on an Issue whose data was cached, and the cache
\* is now clear.
C3_Witness ==
  /\ MutationPerformed
  /\ last.held
  /\ _issue = << >>

\* C4 as stated: if a primitive batch fetch completes successfully but its
\* response omits the field f that was read, the read of f fails with a
\* ReferenceError; it never resolves to undefined.
C4_AsStated ==
  (/\ last.op = "settle"
   /\ last.api \in {"graphql.primitives", "graphql.loadPrimitives"}
   /\ last.answer = "ok"
   /\ last.prop \notin DOMAIN last.data) =>
     last.outcome = "ReferenceError"

\* C5 as stated: a read of an identity field assigned at construction
\* (number, name, repository, owner), whatever value was assigned, returns the
\* assigned value and issues no API call.
C5_AsStated ==
  (last.op = "get" /\ last.prop \in IdentityFields(cls)) =>
    /\ last.outcome = "returned"
    /\ last.value = props[last.prop]
    /\ last.issued = 0

\* C6: assigning a property that exists explicitly on the entity instance (an
\* identity field) succeeds, stores the new value on the instance, and leaves
\* the entity's cache empty, whatever the cache held before.
C6_IdentityAssignment ==
  (variant = "Fields" /\ last.op = "set" /\ last.prop \in IdentityFields(cls)) =>
    /\ last.outcome = "returned"
    /\ props[last.prop] = last.value
    /\ _cache = << >>

\* The key identity field was assigned while the cache held data; the
\* instance has the new value and the cache is empty.
C6_Witness ==
  /\ variant = "Fields"
  /\ last.op = "set"
  /\ last.prop = KeyField(cls)
  /\ last.held
  /\ last.outcome = "returned"
  /\ props[KeyField(cls)] = last.value
  /\ _cache = << >>

\* The collection-relation fields of the class: those the registry resolves
\* to an entity class.
CollectionFields == {f \in DOMAIN _fields(cls) : _fields(cls)[f] \in GraphQLAbstractClasses}

\* A read of a collection-relation field that the cache does not hold.
UncachedCollectionRead ==
  /\ variant = "Fields"
  /\ last.op = "get"
  /\ last.prop \in CollectionFields
  /\ last.prop \notin DOMAIN _cache

\* C7 as stated: a read of a collection-relation field issues exactly one API
\* call, whose page-size variable is no greater than the page size configured
\* on the related class; no second call is made for further pages.
C7_AsStated ==
  [][/\ UncachedCollectionRead' =>
          /\ last'.issued = 1
          /\ last'.map.pageSize <= _PAGE_SIZE[_fields(cls)[last'.prop]]
     /\ (last'.op = "settle" /\ last'.api \in CreateApis) => nCalls' = nCalls]_vars

\* C7 amended: a read of a collection-relation field issues at most one API
\* call: exactly one where the related class's create supports the reading
\* class (Issue.labels), none otherwise (Issue.trackedIssues fails with a
\* NotImplementedError); the call's page-size variable is no greater than
\* GraphQLAbstract._PAGE_SIZE (ProjectV2Item._PAGE_SIZE for
\* ProjectV2Item.create); no second call is made for further pages, even when
\* the response reports a totalCount above the page size.
C7_SingleBoundedCall ==
  [][/\ UncachedCollectionRead' =>
          IF _fields(cls)[last'.prop] = "Label" /\ cls = "Issue"
          THEN /\ last'.issued = 1
               /\ nCalls' = nCalls + 1
               /\ last'.api = "Label.create"
               /\ last'.map.pageSize <= GraphQLAbstract_PAGE_SIZE
          ELSE /\ last'.issued = 0
               /\ nCalls' = nCalls
               /\ last'.outcome = "NotImplementedError"
     /\ (last'.op = "create" /\ last'.issued = 1) =>
          /\ last'.api \in CreateApis
          /\ last'.map.pageSize <= IF last'.api = "Label.create"
                                    THEN GraphQLAbstract_PAGE_SIZE
                                    ELSE ProjectV2Item_PAGE_SIZE
     /\ (last'.op = "settle" /\ last'.api \in CreateApis) =>
          /\ nCalls' = nCalls
          /\ Len(inflight') = Len(inflight) - 1]_vars

\* The one call of a read of `labels` was answered with a totalCount above
\* the page size asked for, and nothing further is in flight.
C7_Witness ==
  /\ variant = "Fields"
  /\ last.op = "settle"
  /\ last.api = "Label.create"
  /\ last.prop = "labels"
  /\ last.outcome = "fulfilled"
  /\ last.total > last.map.pageSize
  /\ nCalls = 1
  /\ inflight = << >>

\* C8 as stated: the collection that a collection-relation read returns and
\* caches has at most page-size entries, for every response the API may send.
C8_AsStated ==
  (last.op = "settle" /\ last.api \in CreateApis /\ last.outcome = "fulfilled") =>
    /\ last.value[3] <= last.map.pageSize
    /\ last.prop # "" => _cache[last.prop][3] <= last.map.pageSize

\* C9 as stated: the page size a read of a collection-relation field requests
\* is the value configured on the related entity class.
C9_AsStated ==
  (last.op = "get" /\ last.api \in CreateApis) =>
    last.map.pageSize = _PAGE_SIZE[_fields(cls)[last.prop]]

\* C10: every primitive batch fetch issued for an entity carries as variable
\* bindings the entity's identity values as they are when the read is issued
\* (owner, repository, and issue number or label name), including after an
\* identity field has been reassigned.
C10_IdentityBindings ==
  (last.op = "get" /\ last.api \in {"graphql.primitives", "graphql.loadPrimitives"}) =>
    /\ last.issued = 1
    /\ last.map.owner = props["owner"]
    /\ last.map.repository = props["repository"]
    /\ last.map.key = props[KeyField(cls)]

\* A batch fetch was issued after the key identity field had been reassigned
\* (2 and "docs" are values only an assignment gives), carrying the new key.
C10_Witness ==
  /\ last.op = "get"
  /\ last.api \in {"graphql.primitives", "graphql.loadPrimitives"}
  /\ last.issued = 1
  /\ last.map.key \in {Num(2), Str("docs")}
  /\ last.map.key = props[KeyField(cls)]

\* The step about to be taken delivers a rejection of the call behind a read
\* or a mutation.
CallRejected ==
  /\ last'.op = "settle"
  /\ last'.answer = "rejected"

C12_AsStated ==
  [][(/\ last'.op = "settle"
      /\ last'.api \in {"graphql.primitives", "graphql.loadPrimitives"}
      /\ last'.answer = "incomplete") =>
       (last'.outcome = "ReferenceError" /\ _cache' = _cache)]_vars

\* Two reads of one uncached primitive field were started before either
\* fetch completed, the first fetch to complete has just been answered in
\* full, and the other is still awaited.
OneOfTwoFetchesCompleted ==
  /\ PrimitiveFetchCompleted
  /\ ~last.held
  /\ nCalls = 2
  /\ Len(inflight) = 1
  /\ inflight[1].api = "graphql.primitives"
  /\ inflight[1].prop = last.prop

\* The step about to be taken completes the other fetch.
OtherFetchCompletes ==
  /\ OneOfTwoFetchesCompleted
  /\ PrimitiveFetchCompleted'

\* The step about to be taken reads an uncached primitive field, not set on
\* the instance, for which a fetch is already awaited.
ReadWhileFetching ==
  /\ variant = "Fields"
  /\ last'.op = "get"
  /\ last'.prop \in _getPrimitiveFields(cls) \ DOMAIN _cache
  /\ Direct(last'.prop) = Undefined
  /\ \E i \in DOMAIN inflight :
       inflight[i].api = "graphql.primitives" /\ inflight[i].prop = last'.prop

\* C13 as stated: when two reads of the same uncached primitive field are
\* started before either fetch completes, two fetches are issued, both reads
\* resolve without error, and once both fetches have completed each cached
\* field holds the value from the response that completed last.
C13_AsStated ==
  [][/\ ReadWhileFetching => (last'.issued = 1 /\ Len(inflight') = Len(inflight) + 1)
     /\ OtherFetchCompletes =>
          /\ last.outcome = "fulfilled" /\ last'.outcome = "fulfilled"
          /\ \A f \in DOMAIN _cache' :
               /\ f \in DOMAIN last'.data
               /\ _cache'[f] = Apply(_fields(cls)[f], last'.data[f])]_vars

\* C13 amended: two fetches are issued (no coalescing) and both reads resolve
\* without error; once both fetches have completed, each field the last
\* response carries holds the value from that response, and a field that only
\* the earlier response carries keeps the value from the earlier one.
C13_LastResponseWins ==
  [][/\ ReadWhileFetching => (last'.issued = 1 /\ Len(inflight') = Len(inflight) + 1)
     /\ OtherFetchCompletes =>
          /\ last.outcome = "fulfilled" /\ last'.outcome = "fulfilled"
          /\ DOMAIN _cache' = DOMAIN last.data \cup DOMAIN last'.data
          /\ \A f \in DOMAIN _cache' :
               _cache'[f] = Apply(_fields(cls)[f],
                                  IF f \in DOMAIN last'.data THEN last'.data[f]
                                  ELSE last.data[f])]_vars

\* Two reads of a Label's `color` are under way: the first fetch completed
\* with "red" and is cached, the second is still awaited.
C13_Witness ==
  /\ OneOfTwoFetchesCompleted
  /\ last.prop = "color"
  /\ "color" \in DOMAIN last.data
  /\ last.data["color"] = Str("red")
  /\ _cache["color"] = Str("red")

\* The field registry of the entity's class: `_fields`, or the three static
\* lists of the earlier generation.
Registry ==
  IF variant = "Lists"
  THEN _primitiveFields(cls) \cup DOMAIN _manyToOneFields(cls) \cup DOMAIN _manyToManyFields(cls)
  ELSE DOMAIN _fields(cls)

\* The step about to be taken reads a property that is neither set on the
\* instance nor registered.
UnrecognisedRead ==
  /\ variant \in {"Fields", "Lists"}
  /\ last'.op = "get"
  /\ last'.prop \notin DOMAIN props
  /\ last'.prop \notin Registry

\* C14: a read of a property that is neither set on the entity instance nor
\* present in the entity type's field registry yields undefined: it does not
\* throw, issues no API call and leaves the cache unchanged.
C14_UnrecognisedReadIsUndefined ==
  [][UnrecognisedRead =>
       /\ last'.outcome = "returned"
       /\ last'.value = Undefined
       /\ last'.issued = 0
       /\ nCalls' = nCalls
       /\ inflight' = inflight
       /\ _cache' = _cache]_vars

\* `foobar` has been read from an entity whose cache holds fields.
C14_Witness ==
  /\ last.op = "get"
  /\ last.prop = "foobar"
  /\ "foobar" \notin DOMAIN props
  /\ last.outcome = "returned"
  /\ last.value = Undefined
  /\ last.held
  /\ Cached

\* The step about to be taken assigns a property that is neither set on the
\* instance nor registered.
UnrecognisedAssignment ==
  /\ variant = "Fields"
  /\ last'.op = "set"
  /\ last'.prop \notin DOMAIN props
  /\ last'.prop \notin DOMAIN _fields(cls)

\* C15 as stated: assigning a property that is neither set on the entity
\* instance nor present in the field registry fails synchronously with a
\* TypeError and leaves both the instance's properties and the cache unchanged.
C15_AsStated ==
  [][UnrecognisedAssignment =>
       /\ last'.outcome = "TypeError"
       /\ props' = props
       /\ _cache' = _cache]_vars

\* The step about to be taken is one the code declares unimplemented: the
\* assignment of a relational field, the read of an uncached relational
\* field whose class cannot create from this entity, or such a create itself.
UnimplementedOperation ==
  /\ variant = "Fields"
  /\ \/ /\ last'.op = "set"
        /\ last'.prop \notin DOMAIN props
        /\ last'.prop \in DOMAIN _fields(cls)
        /\ _fields(cls)[last'.prop] \in GraphQLAbstractClasses
     \/ /\ last'.op = "get"
        /\ Direct(last'.prop) = Undefined
        /\ last'.prop \in DOMAIN _fields(cls) \ DOMAIN _cache
        /\ _fields(cls)[last'.prop] \in GraphQLAbstractClasses
        /\ ~create_supports(_fields(cls)[last'.prop], cls)
     \/ /\ last'.op = "create"
        /\ last'.issued = 0

\* C16 as stated: operations that are declared unimplemented fail with
\* NotImplementedError and have no effect: assigning a relational field, or
\* reading a relational field whose entity type cannot create from the
\* calling type, raises NotImplementedError, issues no API call and caches
\* nothing; such a read never resolves to undefined or to an empty collection.
C16_AsStated ==
  [][UnimplementedOperation =>
       /\ last'.outcome = "NotImplementedError"
       /\ last'.issued = 0
       /\ nCalls' = nCalls
       /\ inflight' = inflight
       /\ props' = props
       /\ _cache' = _cache]_vars

\* The part of C16 that does not concern the cache's earlier content.
C16_RaisesWithoutCall ==
  [][UnimplementedOperation =>
       /\ last'.outcome = "NotImplementedError"
       /\ last'.issued = 0
       /\ nCalls' = nCalls
       /\ inflight' = inflight
       /\ props' = props
       /\ DOMAIN _cache' \subseteq DOMAIN _cache]_vars

\* The cache entries that the step about to be taken brings into existence.
NewEntries == (DOMAIN _cache' \ DOMAIN _cache) \cup (DOMAIN _issue' \ DOMAIN _issue)

RemoveLabelsSettles ==
  /\ variant = "Rest"
  /\ \/ ~all.settled /\ all'.settled
     \/ last'.op = "removeLabels" /\ all'.pending = 0

\* C18 as stated: Issue.removeLabels does not throw when labels are missing:
\* for every list of label names, including names whose removal the API
\* rejects because the label is not on the Issue, the returned promise
\* fulfils, one removal call is made per name, and the cached Issue data is
\* cleared.
C18_AsStated ==
  [][/\ last'.op = "removeLabels" =>
          /\ nCalls' - nCalls = all'.pending
          /\ Len(inflight') = Len(inflight) + all'.pending
          /\ \A k \in (Len(inflight) + 1)..Len(inflight') : inflight'[k].api = "rest.removeLabel"
     /\ RemoveLabelsSettles =>
          /\ last'.outcome = "fulfilled"
          /\ _issue' = << >>]_vars

\* The fetch that a reload issued succeeds in the step about to be taken.
ReloadSucceeds ==
  /\ last'.op = "settle"
  /\ last'.api \in {"rest.get", "graphql.loadPrimitives"}
  /\ last'.prop = ""
  /\ last'.answer = "ok"

\* C19 as stated: Issue.reload() forces a reload: it issues a new fetch from
\* GitHub even when Issue data is already cached, and when that fetch
\* succeeds later reads return the newly fetched data.
C19_AsStated ==
  [][/\ last'.op = "reload" =>
          /\ last'.issued = 1
          /\ nCalls' = nCalls + 1
          /\ Len(inflight') = Len(inflight) + 1
     /\ ReloadSucceeds =>
          /\ last'.outcome = "fulfilled"
          /\ _issue' = <<last'.data>>]_vars

\* C19 for the REST generation alone (part_002:132-178), where it holds.
C19_RestReloadForces ==
  [][variant = "Rest" =>
       /\ last'.op = "reload" =>
            /\ last'.issued = 1
            /\ nCalls' = nCalls + 1
            /\ Len(inflight') = Len(inflight) + 1
       /\ ReloadSucceeds =>
            /\ last'.outcome = "fulfilled"
            /\ _issue' = <<last'.data>>]_vars

\* A reload was issued while Issue data was cached, and its fetch succeeded.
C19_RestReloaded ==
  /\ variant = "Rest"
  /\ last.op = "settle"
  /\ last.api = "rest.get"
  /\ last.prop = ""
  /\ last.answer = "ok"
  /\ last.held
  /\ _issue = <<last.data>>

\* Label._build has been called and its promise has settled.
Built == last.op = "_build" /\ last.outcome # "pending"

\* C20 as stated: Label._build(data) raises a ReferenceError, and builds no
\* Label, whenever data lacks any of the required fields owner, repository or
\* name; with ignoreAdditional false it also raises a ReferenceError for any
\* key of data that is not a registered field.
C20_AsStated ==
  Built =>
    /\ {"owner", "repository", "name"} \ DOMAIN last.data # {} =>
         (last.outcome = "ReferenceError" /\ props = << >> /\ _cache = << >>)
    /\ (last.value = Bool(FALSE) /\ DOMAIN last.data \ DOMAIN _fields("Label") # {}) =>
         (last.outcome = "ReferenceError" /\ props = << >> /\ _cache = << >>)

\* The second half of C20, which holds: with ignoreAdditional false a key of
\* data that is not a registered field raises a ReferenceError.
C20_UnexpectedKeyRaises ==
  (Built /\ last.value = Bool(FALSE) /\ DOMAIN last.data \ DOMAIN _fields("Label") # {}) =>
    (last.outcome = "ReferenceError" /\ props = << >> /\ _cache = << >>)

\* A Label was built from data that has none of the required fields.
C20_BuiltWithoutRequired ==
  /\ Built
  /\ last.outcome = "fulfilled"
  /\ DOMAIN last.data = {"color"}
  /\ props["name"] = Undefined

\* C21 as stated: the membership test `prop in entity` is true exactly when
\* prop is set directly on the instance or is a key of the entity type's
\* field registry, and false for every other property name.
C21_AsStated ==
  last.op = "has" =>
    last.value = Bool(last.prop \in DOMAIN props \/ last.prop \in Registry)

\* The half of C21 that holds where the has trap exists: the test is true for
\* every property set on the instance or registered.
C21_TrueWhenPresent ==
  (variant = "Fields" /\ last.op = "has"
     /\ (last.prop \in DOMAIN props \/ last.prop \in Registry)) =>
    last.value = Bool(TRUE)

\* The group level is the number of groups opened and not yet closed.
GroupBalance ==
  /\ _groupLevel >= 0
  /\ _groupLevel = console.group - console.endgroup

\* C22: for any sequence of startGroup, endGroup and endAllGroups calls on one
\* Logger, the group level is never negative and equals the number of
\* '::group::' lines emitted minus the number of '::endgroup::' lines emitted;
\* endGroup at level 0 throws a RangeError, emits nothing and leaves the
\* level at 0.
C22_GroupLevelBalanced ==
  /\ GroupBalance
  /\ [][/\ GroupBalance'
        /\ (last'.op = "endGroup" /\ _groupLevel = 0) =>
             /\ last'.outcome = "RangeError"
             /\ console' = console
             /\ _groupLevel' = 0]_vars

\* endGroup has thrown on a Logger whose groups were all opened and closed.
C22_Witness ==
  /\ last.op = "endGroup"
  /\ last.outcome = "RangeError"
  /\ console.group >= 2
  /\ console.endgroup = console.group
  /\ _groupLevel = 0

\* C23 as stated: Logger.debugLevel is VERBOSE (2) only if
\* ACTIONS_RUNNER_DEBUG or ACTIONS_STEP_DEBUG is set to true and
\* ACTIONS_DEBUG_VERBOSE is set to true; it is DEFAULT (0) whenever neither
\* debug variable is set to true, whatever ACTIONS_DEBUG_VERBOSE is; debug()
\* emits only at level >= 1 and verbose() only at level 2.
C23_AsStated ==
  _debugLevel # Undefined =>
    /\ _debugLevel = LEVEL.VERBOSE =>
         /\ env["ACTIONS_RUNNER_DEBUG"] = Str("true") \/ env["ACTIONS_STEP_DEBUG"] = Str("true")
         /\ env["ACTIONS_DEBUG_VERBOSE"] = Str("true")
    /\ (env["ACTIONS_RUNNER_DEBUG"] # Str("true") /\ env["ACTIONS_STEP_DEBUG"] # Str("true")) =>
         _debugLevel = LEVEL.DEFAULT
    /\ console.DEBUG > 0 => _debugLevel[3] >= 1
    /\ console.VERBOSE > 0 => _debugLevel[3] = 2

\* C23 with "set to true" read as "set to a non-empty string", which holds.
C23_SetToAnyText ==
  /\ (console.DEBUG > 0 \/ console.VERBOSE > 0) => _debugLevel # Undefined
  /\ _debugLevel # Undefined =>
       /\ _debugLevel = LEVEL.VERBOSE =>
            /\ InEnv("ACTIONS_RUNNER_DEBUG") \/ InEnv("ACTIONS_STEP_DEBUG")
            /\ InEnv("ACTIONS_DEBUG_VERBOSE")
       /\ (~InEnv("ACTIONS_RUNNER_DEBUG") /\ ~InEnv("ACTIONS_STEP_DEBUG")) =>
            _debugLevel = LEVEL.DEFAULT
       /\ console.DEBUG > 0 => _debugLevel[3] >= 1
       /\ console.VERBOSE > 0 => _debugLevel[3] = 2

\* C28: Logger.endAllGroups terminates from any group level n >= 0, emits
\* exactly n '::endgroup::' lines, never throws, and leaves the group level
\* at 0.
C28_EndAllGroups ==
  [][last'.op = "endAllGroups" =>
       /\ last'.outcome = "returned"
       /\ _groupLevel' = 0
       /\ console' = [console EXCEPT !.endgroup = @ + _groupLevel]]_vars

\* endAllGroups has closed two or more open groups.
C28_Witness ==
  /\ last.op = "endAllGroups"
  /\ last.value[3] >= 2
  /\ last.outcome = "returned"
  /\ console.endgroup = console.group
  /\ _groupLevel = 0

\* A registered primitive field, not set on the instance, has been assigned.
PrimitiveAssigned ==
  /\ variant = "Fields"
  /\ last.op = "set"
  /\ last.prop \notin DOMAIN props
  /\ last.prop \in _getPrimitiveFields(cls)

\* C24 as stated: assigning a registered primitive field that is not set
\* explicitly on the instance does not raise: the set reports success and the
\* cache then holds the field's resolver applied to the assigned value; a
\* TypeError is raised only for properties that are unmapped.
C24_AsStated ==
  /\ PrimitiveAssigned =>
       /\ last.outcome = "returned"
       /\ last.prop \in DOMAIN _cache
       /\ _cache[last.prop] = Apply(_fields(cls)[last.prop], last.value)
  /\ (variant = "Fields" /\ last.op = "set" /\ last.outcome = "TypeError") =>
       last.prop \notin DOMAIN _fields(cls)

\* The part of C24 that holds: the cache holds the resolver applied to the
\* assigned value.
C24_ValueCached ==
  PrimitiveAssigned =>
    /\ last.prop \in DOMAIN _cache
    /\ _cache[last.prop] = Apply(_fields(cls)[last.prop], last.value)

\* C25 as stated: Issue.addLabels accepts a single label name or a list of
\* names, issues exactly one add-labels call carrying the Issue's owner,
\* repository and number and the names as a list, and when that call succeeds
\* its promise fulfils (no error reaches the caller) with the cached Issue
\* data cleared.
C25_AsStated ==
  [][/\ last'.op = "addLabels" =>
          /\ last'.issued = 1
          /\ nCalls' = nCalls + 1
          /\ last'.api = "rest.addLabels"
          /\ last'.map = [owner |-> Direct("owner"), repository |-> Direct("repository"),
                          key |-> Direct("number"), pageSize |-> 0]
     /\ (last'.op = "settle" /\ last'.api = "rest.addLabels" /\ last'.answer = "ok") =>
          /\ last'.outcome = "fulfilled"
          /\ _issue' = << >>]_vars

\* The part of C25 that holds: one call with the Issue's identity, and the
\* cached data cleared when it succeeds.
C25_OneCallThenCleared ==
  [][/\ last'.op = "addLabels" =>
          /\ last'.issued = 1
          /\ nCalls' = nCalls + 1
          /\ last'.api = "rest.addLabels"
          /\ last'.map = [owner |-> Direct("owner"), repository |-> Direct("repository"),
                          key |-> Direct("number"), pageSize |-> 0]
     /\ (last'.op = "settle" /\ last'.api = "rest.addLabels" /\ last'.answer = "ok") =>
          _issue' = << >>]_vars

\* The step just taken invalidated the cache: an identity field was assigned,
\* clearCache was called, or a mutation completed.
Invalidated ==
  \/ last.op = "clearCache"
  \/ variant = "Fields" /\ last.op = "set" /\ last.prop \in IdentityFields(cls)
  \/ MutationPerformed

\* The step about to be taken delivers the successful answer to a fetch; if
\* the step before it was an invalidation, the fetch was issued before it.
FetchCompletes ==
  /\ last'.op = "settle"
  /\ last'.api \in {"graphql.primitives", "graphql.loadPrimitives", "rest.get"}
  /\ last'.answer = "ok"

\* C29 as stated: after an entity's cache is invalidated, the cache never
\* again holds a value from a fetch that was issued before the invalidation,
\* for every interleaving, including one where such a fetch is still in
\* flight at the moment of invalidation and completes afterwards.
C29_AsStated ==
  [][(Invalidated /\ FetchCompletes) => (_cache' = _cache /\ _issue' = _issue)]_vars

\* C29 amended: at the moment an entity's cache is invalidated it holds
\* nothing, so no value from a fetch that completed before the invalidation
\* survives it; a fetch still in flight at that moment is not cancelled, and
\* when it completes afterwards its response is written to the cache.
C29_InFlightFetchStillWrites ==
  /\ []((Invalidated /\ last.outcome # "pending") => ~Cached)
  /\ [][(Invalidated /\ FetchCompletes) =>
          IF variant = "Rest" THEN _issue' = <<last'.data>>
          ELSE DOMAIN _cache' = DOMAIN last'.data]_vars

\* The cache held data and was invalidated while a fetch was in flight.
C29_Witness ==
  /\ Invalidated
  /\ last.held
  /\ ~Cached
  /\ inflight # << >>
  /\ inflight[1].api \in {"graphql.primitives", "graphql.loadPrimitives", "rest.get"}

\* The handler's promise has settled.
HandlerSettled == handler.pc = "done"

\* A mutation the handler issued is still in flight.
MutationInFlight == \E i \in DOMAIN inflight : inflight[i].api # "rest.get"

\* C26: the promise handleUserAssigned returns settles only after every
\* label removal and warning comment it started has settled: no mutation the
\* handler issued is in flight once its promise has resolved.
C26_AsStated == HandlerSettled => ~MutationInFlight

\* What the code does hold to: the handler starts no mutation before the
\* labels it awaits have arrived.
C26_NothingBeforeTheFetch == handler.pc # "done" => ~MutationInFlight

\* C27: the mutations are determined by the labels fetched once: removal is
\* requested of exactly the labels whose lower-cased name is 'help wanted',
\* one warning comment is posted iff some label's lower-cased name is
\* 'needs triage', and otherwise the notice is logged and no comment posted.
C27_AsStated ==
  handler.promise = "fulfilled" =>
    /\ nCalls = 1 + Len(handler.removals)
    /\ \A i \in DOMAIN handler.labels :
         toLowerCase(handler.labels[i]) = "help wanted"
           <=> \E k \in DOMAIN handler.removals : handler.removals[k] = handler.labels[i]
    /\ handler.comments = (IF \E i \in DOMAIN handler.labels :
                                 toLowerCase(handler.labels[i]) = "needs triage" THEN 1 ELSE 0)
    /\ console.NOTICE = (IF handler.comments = 0 THEN 1 ELSE 0)

\* What the code does hold to: the removals are exactly those, one fetch is
\* made, and the notice is logged iff no label is 'needs triage'.
C27_RemovalsAndNotice ==
  handler.promise = "fulfilled" =>
    /\ nCalls = 1 + Len(handler.removals)
    /\ \A i \in DOMAIN handler.labels :
         toLowerCase(handler.labels[i]) = "help wanted"
           <=> \E k \in DOMAIN handler.removals : handler.removals[k] = handler.labels[i]
    /\ handler.found <=> \E i \in DOMAIN handler.labels :
                           toLowerCase(handler.labels[i]) = "needs triage"
    /\ console.NOTICE = (IF handler.found THEN 0 ELSE 1)
    /\ console.WARNING = (IF handler.found THEN 1 ELSE 0)

\* C30: on every path through handleUserAssigned, also where the label
\* fetch or a mutation rejects, each startGroup is matched by an endGroup:
\* the logger is at group level 0 once the handler's promise has settled.
C30_AsStated == HandlerSettled => _groupLevel = 0 /\ console.group = console.endgroup

\* What the code does hold to: the groups are matched where the handler's
\* promise fulfils, and the level is never negative.
C30_MatchedWhenFulfilled ==
  /\ _groupLevel >= 0
  /\ handler.promise = "fulfilled" => _groupLevel = 0 /\ console.group = console.endgroup

====
